---- MODULE Spec2Model ----
(***************************************************************************)
(* Model of twitter_scraper.py: the TwitterScraper rate limiter            *)
(* (check_rate_limit), the CSV batch writer (init_csv, save_tweets_batch)  *)
(* and the pagination loop (search_tweets).                                *)
(*                                                                         *)
(* Time is the integer number of seconds read by time.time().  A record is *)
(* identified by the id of the tweet it was extracted from.                *)
(***************************************************************************)
EXTENDS Integers, Sequences, FiniteSets, TLC

VARIABLES
    pc,              \* position of the single thread of control
    phase,           \* "none" | "first" | "next": which request search_tweets is about to make
    now,             \* time.time()
    requests_count,  \* self.requests_count
    reset_time,      \* self.reset_time
    entry_time,      \* time.time() read at entry of the running check_rate_limit (current_time)
    entry_reset,     \* self.reset_time at entry of the running check_rate_limit
    entry_count,     \* self.requests_count at entry of the running check_rate_limit
    waited,          \* the running check_rate_limit took the "limit reached" branch
    lastGrant,       \* time at which the previous check_rate_limit returned (-1: none yet)
    obsStart,        \* history: entry time of the call an observation window is measured from (-1: none)
    obsCount,        \* history: check_rate_limit returns inside [obsStart, obsStart + 900)
    max_tweets,      \* argument of search_tweets
    total_tweets,    \* local total_tweets
    tweets_batch,    \* local tweets_batch (sequence of records)
    file,            \* lines of self.current_file (<<>>: not created)
    result,          \* current page: sequence of items
    idx,             \* position of the for loop in result
    upstream,        \* history: ids of all items the upstream source emitted, in order
    collected,       \* history: records appended to tweets_batch, in order
    flushes,         \* history: number of rows written by each save_tweets_batch call that wrote
    outcome,         \* how the run ended: "none" | "target" | "exhausted" | "error"
    errsrc,          \* "none" | "request" | "extract": where the caught exception came from
    reported,        \* the total printed by "Completed! Total tweets collected" (-1: not printed)
    retval,          \* values search_tweets returned to its caller (<<>>: none, i.e. None)
    save_arg,        \* argument of the last direct save_tweets_batch call
    fetches,         \* history: search and next-page requests of the run that returned or raised
    signal           \* flag flipped by another task of the event loop each time it runs

rlvars  == <<now, requests_count, reset_time, entry_time, entry_reset, entry_count,
             waited, lastGrant, obsStart, obsCount>>
runvars == <<max_tweets, total_tweets, tweets_batch, result, idx, upstream, collected,
             outcome, errsrc, reported, retval, fetches, signal>>
vars    == <<pc, phase, rlvars, runvars, file, flushes, save_arg>>

----------------------------------------------------------------------------
(* Program constants *)

MaxRequests  == 45
WindowLength == 900
MinCooldown  == 10
MaxCooldown  == 17
BatchSize    == 20

(* Bounds of the model *)

MaxTime   == 940   \* no new check_rate_limit call or caller pause starts after this time
IdleLong  == 450   \* a long pause of the caller between two calls
SmallPage == 10    \* size of a short page
BigPage   == 20    \* size of a full page
MidTarget == 25    \* a max_tweets value reached in the middle of a page
BigTarget == 45    \* a max_tweets value needing three pages
BadPos    == 3     \* position in a page at which a malformed item may sit
MaxDirect == 3     \* longest batch passed to a direct save_tweets_batch call
MaxLines  == 6     \* direct save_tweets_batch calls stop once the file has this many lines

\* Faulty variant: the lower end of the delay range mistyped.
CooldownsMistyped == {1, MaxCooldown}

Cooldowns  == {MinCooldown, MaxCooldown}   \* values drawn for random.uniform(10, 17)
Oversleeps == {0, 1}                       \* seconds by which the 1 s sleep loop overshoots
IdleTimes  == {IdleLong}                   \* pauses of the caller between two calls
Targets    == {1, MidTarget, BigTarget}    \* values of max_tweets
PageSizes  == {0, 1, SmallPage, BigPage}   \* sizes of the pages the upstream source returns
RequestTimes == {1}                        \* seconds an upstream request takes

----------------------------------------------------------------------------
(* check_rate_limit *)

\* Faulty variant: the expiry test left out.
WindowExpiredNever(t, rst) == FALSE

WindowExpired(t, rst) == t > rst

\* Faulty variant: off-by-one limit test.
LimitReachedLate(cnt) == cnt > MaxRequests

LimitReached(cnt) == cnt >= MaxRequests

\* Faulty variant: the wait loop does not sleep.
WaitEndNoSleep(t, rst, o) == t

\* Time at which "while time.time() < self.reset_time: time.sleep(1)" exits
\* when entered at time t, overshooting the boundary by o.
WaitEnd(t, rst, o) == IF t < rst THEN rst + o ELSE t

\* Lines 59-78: read the clock, reset an expired window, and when the budget
\* is exhausted sleep until the window boundary and open a new window.
RLCheck ==
    /\ pc = "acquire"
    /\ LET expired == WindowExpired(now, reset_time)
           cnt1    == IF expired THEN 0 ELSE requests_count
           rst1    == IF expired THEN now + WindowLength ELSE reset_time
       IN  IF LimitReached(cnt1)
           THEN \E o \in Oversleeps :
                   LET t == WaitEnd(now, rst1, o)
                   IN  /\ now' = t
                       /\ requests_count' = 0
                       /\ reset_time' = t + WindowLength
                       /\ waited' = TRUE
           ELSE /\ now' = now
                /\ requests_count' = cnt1
                /\ reset_time' = rst1
                /\ waited' = FALSE
    /\ entry_time' = now
    /\ entry_reset' = reset_time
    /\ entry_count' = requests_count
    /\ pc' = "cooldown"
    /\ UNCHANGED <<phase, lastGrant, obsStart, obsCount, runvars, file, flushes, save_arg>>

\* Lines 82-84: the per-call sleep, then the request is counted and the call returns.
RLCooldown ==
    /\ pc = "cooldown"
    /\ \E c \in Cooldowns : now' = now + c
    /\ requests_count' = requests_count + 1
    /\ lastGrant' = now'
    /\ obsCount' = IF obsStart >= 0 /\ now' < obsStart + WindowLength
                   THEN obsCount + 1 ELSE obsCount
    /\ pc' = IF phase = "none" THEN "idle" ELSE "request"
    /\ UNCHANGED <<phase, reset_time, entry_time, entry_reset, entry_count, waited,
                   obsStart, runvars, file, flushes, save_arg>>

----------------------------------------------------------------------------
(* A caller that uses the rate limiter directly *)

\* A call of check_rate_limit; observe marks it as the call an observation
\* window is measured from.
CallerAcquire ==
    /\ pc = "idle"
    /\ phase = "none"
    /\ now <= MaxTime
    /\ pc' = "acquire"
    /\ \E observe \in BOOLEAN :
          obsStart' = IF observe /\ obsStart < 0 THEN now ELSE obsStart
    /\ UNCHANGED <<phase, now, requests_count, reset_time, entry_time, entry_reset,
                   entry_count, waited, lastGrant, obsCount, runvars, file, flushes,
                   save_arg>>

\* Time passing between two calls.
CallerIdle ==
    /\ pc = "idle"
    /\ phase = "none"
    /\ now <= MaxTime
    /\ \E d \in IdleTimes : now' = now + d
    /\ UNCHANGED <<pc, phase, requests_count, reset_time, entry_time, entry_reset,
                   entry_count, waited, lastGrant, obsStart, obsCount, runvars, file,
                   flushes, save_arg>>

----------------------------------------------------------------------------
(* init_csv and save_tweets_batch *)

HeaderLine == [kind |-> "header", id |-> 0]
EmptyLine  == [kind |-> "empty", id |-> 0]
RowLine(r) == [kind |-> "row", id |-> r.id]

\* df.to_csv(self.current_file, index=False) of the empty frame: the header alone.
InitCsv == <<HeaderLine>>

\* The lines DataFrame(batch).to_csv(header=False, index=False) produces.
CsvRows(batch) == [i \in 1..Len(batch) |-> RowLine(batch[i])]

\* Faulty variant: the file opened for writing instead of appending.
SaveOverwrite(f, batch) == IF batch = <<>> THEN f ELSE CsvRows(batch)

\* Faulty variant: header=False left out, so every save writes the header again.
SaveWithHeader(f, batch) == IF batch = <<>> THEN f ELSE f \o <<HeaderLine>> \o CsvRows(batch)

\* Faulty variant: the empty-batch guard missing; an empty frame is written as an empty line.
SaveUnguarded(f, batch) == f \o (IF batch = <<>> THEN <<EmptyLine>> ELSE CsvRows(batch))

\* save_tweets_batch: the file after the call.
SaveTweetsBatch(f, batch) == IF batch = <<>> THEN f ELSE f \o CsvRows(batch)

\* History of writes: one entry per call that was given records.
FlushLog(fl, batch) == IF batch = <<>> THEN fl ELSE Append(fl, Len(batch))

\* The data rows of a file: everything after its first line.
DataLines(f) == IF f = <<>> THEN <<>> ELSE Tail(f)
RowIds(f) == [i \in 1..Len(DataLines(f)) |-> DataLines(f)[i].id]

----------------------------------------------------------------------------
(* search_tweets *)

\* A page of n items with consecutive ids; the item at position bad is malformed.
MakePage(first, n, bad) == [i \in 1..n |-> [id |-> first + i - 1, ok |-> i # bad]]

PageIds(p) == [i \in 1..Len(p) |-> p[i].id]

\* Faulty variant: attribute errors swallowed.
ExtractNeverFails(item) == FALSE

\* Lines 136-182 raise on an item that lacks the attributes they read.
ExtractFails(item) == ~item.ok

\* The record built at lines 169-182 (the tweet's own fields stand behind its id).
Extract(item) == [id |-> item.id]

\* Faulty variant: off-by-one flush test.
FlushDueLate(batch) == Len(batch) > BatchSize

\* Line 187.
FlushDue(batch) == Len(batch) >= BatchSize

\* Faulty variant: the batch kept after it was saved.
BatchNotCleared(batch) == batch

\* Line 189: the batch after a save.
BatchAfterSave(batch) == <<>>

\* Faulty variant: off-by-one target test.
TargetReachedLate(total, max) == total > max

\* Line 192.
TargetReached(total, max) == total >= max

\* Faulty variant: off-by-one continuation test.
BelowTargetOrEqual(total, max) == total <= max

\* Lines 132 and 196.
BelowTarget(total, max) == total < max

\* Faulty variant: the save after the loop left out.
FinalSaveSkipped(f, batch) == f

\* Faulty variant: the except block without its save.
OnErrorDiscard(f, batch) == f

\* Lines 210-212: the file after the except block.
OnError(f, batch) == IF batch # <<>> THEN SaveTweetsBatch(f, batch) ELSE f

\* Lines 203-205: the file after the final save.
FinalSave(f, batch) == IF batch # <<>> THEN SaveTweetsBatch(f, batch) ELSE f

\* Faulty variant: the size of the last batch printed instead of the running total.
CompletedBatchLen(total, batch) == Len(batch)

\* Line 214: the number printed as "Total tweets collected".
CompletedTotal(total, batch) == total

\* search_tweets has no return statement: it hands back no value.
ReturnValue(total) == <<>>

\* Faulty variant: the request made without calling check_rate_limit first.
FetchEntryUnthrottled == "request"

\* Lines 129-130 and 197-198: every request is reached through check_rate_limit.
FetchEntry == "acquire"

\* Faulty variant: the failed request tried again.
ErrorExitRetry == "acquire"

\* Lines 208-215: the except block is outside the loop, so the function ends after it.
ErrorExit == "done"

\* Lines 119-129: create the file, clear the locals, enter check_rate_limit.
StartRun ==
    /\ pc = "idle"
    /\ phase = "none"
    /\ \E k \in Targets : max_tweets' = k
    /\ file' = InitCsv
    /\ tweets_batch' = <<>>
    /\ total_tweets' = 0
    /\ phase' = "first"
    /\ pc' = FetchEntry
    /\ UNCHANGED <<rlvars, result, idx, upstream, collected, outcome, errsrc, reported,
                   retval, flushes, save_arg, fetches, signal>>

\* Lines 203-206 and 214-215: the final save, the closing report, the return.
Finish(how, f, fl, batch, total) ==
    /\ file' = FinalSave(f, batch)
    /\ flushes' = FlushLog(fl, batch)
    /\ tweets_batch' = batch
    /\ total_tweets' = total
    /\ outcome' = how
    /\ errsrc' = "none"
    /\ reported' = CompletedTotal(total, batch)
    /\ retval' = ReturnValue(total)
    /\ pc' = "done"

\* Lines 208-215: the except block, the closing report, the return.
Fail(src, f, fl, batch, total) ==
    /\ file' = OnError(f, batch)
    /\ flushes' = IF OnError(f, batch) = f THEN fl ELSE FlushLog(fl, batch)
    /\ tweets_batch' = batch
    /\ total_tweets' = total
    /\ outcome' = "error"
    /\ errsrc' = src
    /\ reported' = CompletedTotal(total, batch)
    /\ retval' = ReturnValue(total)
    /\ pc' = ErrorExit

\* Line 130 or 198: the awaited request raises.
RequestFails ==
    /\ pc = "request"
    /\ \E d \in RequestTimes : now' = now + d
    /\ Fail("request", file, flushes, tweets_batch, total_tweets)
    /\ fetches' = fetches + 1
    /\ UNCHANGED signal
    /\ UNCHANGED <<phase, requests_count, reset_time, entry_time, entry_reset,
                   entry_count, waited, lastGrant, obsStart, obsCount, max_tweets,
                   result, idx, upstream, collected, save_arg>>

\* Line 130 or 198: the awaited request returns a page (an absent page and an
\* empty one are both falsy and are the page of size 0), then the tests of
\* lines 199 and 132.
RequestReturns ==
    /\ pc = "request"
    /\ \E d \in RequestTimes : now' = now + d
    /\ \E n \in PageSizes : \E bad \in {0, BadPos} :
          LET p == MakePage(Len(upstream) + 1, n, bad)
          IN  /\ result' = p
              /\ upstream' = upstream \o PageIds(p)
              /\ IF p # <<>> /\ BelowTarget(total_tweets, max_tweets)
                 THEN /\ pc' = "extract"
                      /\ idx' = 1
                      /\ UNCHANGED <<file, flushes, tweets_batch, total_tweets, outcome,
                                     errsrc, reported, retval>>
                 ELSE /\ idx' = idx
                      /\ Finish("exhausted", file, flushes, tweets_batch, total_tweets)
    /\ phase' = "next"
    /\ fetches' = fetches + 1
    /\ UNCHANGED signal
    /\ UNCHANGED <<requests_count, reset_time, entry_time, entry_reset, entry_count,
                   waited, lastGrant, obsStart, obsCount, max_tweets, collected, save_arg>>

\* Lines 134-201 for one item of the page: extract it, append it, save a full
\* batch, then leave the for loop when the target is reached or the page ends.
ExtractItem ==
    /\ pc = "extract"
    /\ LET item == result[idx]
       IN  IF ExtractFails(item)
           THEN /\ Fail("extract", file, flushes, tweets_batch, total_tweets)
                /\ UNCHANGED <<collected, idx, phase>>
           ELSE LET batch1 == Append(tweets_batch, Extract(item))
                    total1 == total_tweets + 1
                    due    == FlushDue(batch1)
                    file1  == IF due THEN SaveTweetsBatch(file, batch1) ELSE file
                    log1   == IF due THEN FlushLog(flushes, batch1) ELSE flushes
                    batch2 == IF due THEN BatchAfterSave(batch1) ELSE batch1
                    leave  == TargetReached(total1, max_tweets) \/ idx = Len(result)
               IN  /\ collected' = Append(collected, Extract(item))
                   /\ IF ~leave
                      THEN /\ idx' = idx + 1
                           /\ pc' = "extract"
                           /\ file' = file1
                           /\ flushes' = log1
                           /\ tweets_batch' = batch2
                           /\ total_tweets' = total1
                           /\ UNCHANGED <<outcome, errsrc, reported, retval>>
                      ELSE /\ idx' = idx
                           /\ IF BelowTarget(total1, max_tweets)
                              THEN /\ pc' = FetchEntry
                                   /\ file' = file1
                                   /\ flushes' = log1
                                   /\ tweets_batch' = batch2
                                   /\ total_tweets' = total1
                                   /\ UNCHANGED <<outcome, errsrc, reported, retval>>
                              ELSE Finish("target", file1, log1, batch2, total1)
                   /\ UNCHANGED phase
    /\ UNCHANGED <<rlvars, max_tweets, result, upstream, save_arg, fetches, signal>>

----------------------------------------------------------------------------
\* __init__ (lines 15-31), with the clock at 0.
Init ==
    /\ pc = "idle"
    /\ phase = "none"
    /\ now = 0
    /\ requests_count = 0
    /\ reset_time = 0 + WindowLength
    /\ entry_time = 0
    /\ entry_reset = 0
    /\ entry_count = 0
    /\ waited = FALSE
    /\ lastGrant = -1
    /\ obsStart = -1
    /\ obsCount = 0
    /\ max_tweets = 0
    /\ total_tweets = 0
    /\ tweets_batch = <<>>
    /\ file = <<>>
    /\ result = <<>>
    /\ idx = 0
    /\ upstream = <<>>
    /\ collected = <<>>
    /\ flushes = <<>>
    /\ outcome = "none"
    /\ errsrc = "none"
    /\ reported = -1
    /\ retval = <<>>
    /\ save_arg = <<>>
    /\ fetches = 0
    /\ signal = FALSE

----------------------------------------------------------------------------
(* A caller that uses the batch writer directly *)

DirectRecords == {[id |-> 1], [id |-> 2]}
DirectBatches == UNION {[1..n -> DirectRecords] : n \in 0..MaxDirect}

\* init_csv (lines 86-109).
DirectInitCsv ==
    /\ pc = "idle"
    /\ file = <<>>
    /\ file' = InitCsv
    /\ UNCHANGED <<pc, phase, rlvars, runvars, flushes, save_arg>>

\* save_tweets_batch(batch) (lines 111-117).
DirectSave ==
    /\ pc = "idle"
    /\ file # <<>>
    /\ Len(file) <= MaxLines
    /\ \E batch \in DirectBatches :
          /\ save_arg' = batch
          /\ file' = SaveTweetsBatch(file, batch)
          /\ flushes' = FlushLog(flushes, batch)
    /\ UNCHANGED <<pc, phase, rlvars, runvars>>

NextFlush == DirectInitCsv \/ DirectSave

SpecFlush == Init /\ [][NextFlush]_vars

NextRL == CallerAcquire \/ CallerIdle \/ RLCheck \/ RLCooldown

SpecRL == Init /\ [][NextRL]_vars

Next == StartRun \/ RLCheck \/ RLCooldown \/ RequestFails \/ RequestReturns \/ ExtractItem

Spec == Init /\ [][Next]_vars

\* The thread keeps running: time advances, sleeps end and every awaited
\* request eventually returns or raises.
SpecLive == Init /\ [][Next]_vars /\ WF_vars(Next)

----------------------------------------------------------------------------
(* Another task on the event loop of asyncio.run(main()) *)

\* The event loop can switch to another task only while the coroutine is
\* suspended at an await (lines 130 and 198).  time.sleep (lines 74 and 83)
\* keeps the loop's thread inside check_rate_limit.
LoopFree == pc = "request"

\* One step of another task, for instance one that delivers a cancellation.
OtherTaskStep ==
    /\ LoopFree
    /\ signal' = ~signal
    /\ UNCHANGED <<pc, phase, rlvars, max_tweets, total_tweets, tweets_batch, result,
                   idx, upstream, collected, outcome, errsrc, reported, retval, fetches,
                   file, flushes, save_arg>>

NextLoop == Next \/ OtherTaskStep

SpecLoop == Init /\ [][NextLoop]_vars

----------------------------------------------------------------------------
(* Rate limiter properties, checked under SpecRL *)

\* C1: counting from any check_rate_limit call, the number of calls that
\* return within the following WindowLength seconds never exceeds MaxRequests.
C1_WindowBudget == obsCount <= MaxRequests

\* C9: a check_rate_limit call returns at least MinCooldown seconds after the
\* previous call returned, and every call spends at least MinCooldown seconds
\* in its final sleep, whether or not it reset the window or waited.
C9_MinGapBetweenReturns ==
    [][(pc = "cooldown" /\ pc' # "cooldown") =>
          /\ now' - now >= MinCooldown
          /\ (lastGrant >= 0 => now' - lastGrant >= MinCooldown)]_vars

\* Two calls made back to back, each drawing the shortest delay.
C9_Witness ==
    /\ pc = "idle"
    /\ requests_count = 2
    /\ lastGrant = now
    /\ now = 2 * MinCooldown

\* C10: a check_rate_limit call entered with requests_count >= MaxRequests and
\* the window not expired does not return before the reset_time held at entry;
\* after the wait it sets requests_count to 0 and reset_time to the time the
\* wait ended plus WindowLength, and only then counts the request.
C10_BlockedUntilReset ==
    [][/\ (pc = "acquire" /\ requests_count >= MaxRequests /\ now <= reset_time) =>
            /\ pc' = "cooldown"
            /\ now' >= reset_time
            /\ requests_count' = 0
            /\ reset_time' = now' + WindowLength
       /\ (pc = "cooldown" /\ entry_count >= MaxRequests /\ entry_time <= entry_reset) =>
            /\ now' >= entry_reset
            /\ requests_count' = 1
            /\ reset_time' = reset_time]_vars

\* A call that found the budget exhausted before the boundary, slept and returned.
C10_Witness ==
    /\ pc = "idle"
    /\ entry_count >= MaxRequests
    /\ entry_time < entry_reset
    /\ lastGrant = now
    /\ now >= entry_reset + MinCooldown
    /\ requests_count = 1

\* C11: requests_count always lies between 0 and MaxRequests: a call that
\* finds the budget used up resets the counter before it counts its request.
C11_CountWithinBudget == requests_count >= 0 /\ requests_count <= MaxRequests

\* A call that found the counter at MaxRequests and has reset it, not yet counted.
C11_Witness ==
    /\ pc = "cooldown"
    /\ entry_count = MaxRequests
    /\ requests_count = 0

\* C12: a check_rate_limit call entered at a time t later than reset_time
\* sets requests_count to 0 and reset_time to t + WindowLength without
\* sleeping for the window, and returns with requests_count = 1.
C12_ExpiredWindowReset ==
    [][/\ (pc = "acquire" /\ now > reset_time) =>
            /\ pc' = "cooldown"
            /\ now' = now
            /\ ~waited'
            /\ requests_count' = 0
            /\ reset_time' = now + WindowLength
       /\ (pc = "cooldown" /\ entry_time > entry_reset) =>
            /\ requests_count' = 1
            /\ reset_time' = entry_time + WindowLength]_vars

\* A call entered after the window had expired with requests already counted.
C12_Witness ==
    /\ pc = "idle"
    /\ entry_time > entry_reset
    /\ entry_count > 0
    /\ lastGrant = now
    /\ requests_count = 1
    /\ reset_time = entry_time + WindowLength

----------------------------------------------------------------------------
(* Pagination properties, checked under Spec *)

Ids(records) == [i \in 1..Len(records) |-> records[i].id]

IsPrefix(a, b) == Len(a) <= Len(b) /\ a = SubSeq(b, 1, Len(a))

\* The last request returned no page or an empty one.
Exhausted == phase = "next" /\ result = <<>>

\* C2: when a search or next-page request fails, every record appended to the
\* batch so far, flushed earlier or still buffered, is in the file once the
\* run has ended.
C2_NoLossOnRequestError ==
    (pc = "done" /\ errsrc = "request") => RowIds(file) = Ids(collected)

\* A request failed with records buffered after an earlier flush.
C2_Witness ==
    /\ pc = "done"
    /\ errsrc = "request"
    /\ tweets_batch # <<>>
    /\ Len(collected) > BatchSize
    /\ Len(flushes) >= 2

\* C3 as stated: at the end of a run the total is at most max_tweets, and it
\* is exactly max_tweets unless the upstream source was exhausted.
C3_ExactUnlessExhausted ==
    pc = "done" =>
        /\ total_tweets <= max_tweets
        /\ (total_tweets = max_tweets \/ Exhausted)

\* C3 amended: at the end of a run the total is the number of records
\* collected and is at most max_tweets, and it is exactly max_tweets unless
\* the upstream source was exhausted or a caught error ended the run.
C3_ExactUnlessExhaustedOrError ==
    pc = "done" =>
        /\ total_tweets = Len(collected)
        /\ total_tweets <= max_tweets
        /\ (total_tweets = max_tweets \/ Exhausted \/ errsrc # "none")

\* The target was reached in the middle of a page.
C3_Witness ==
    /\ pc = "done"
    /\ errsrc = "none"
    /\ max_tweets = MidTarget
    /\ total_tweets = max_tweets
    /\ idx < Len(result)

\* C4: at every point of a run the data rows of the file are a prefix of the
\* items the upstream source emitted, in page order and in order within pages.
C4_OrderPreserved == IsPrefix(RowIds(file), upstream)

\* Rows of three pages written by three saves.
C4_Witness ==
    /\ pc = "done"
    /\ Len(flushes) >= 3
    /\ Len(RowIds(file)) = BigTarget
    /\ Len(upstream) > Len(RowIds(file))

\* C5 as stated: a malformed item is skipped and the run goes on with the
\* next item of the page, or with the next page after the last item.
C5_SkipsMalformedItem ==
    [][(pc = "extract" /\ ~result[idx].ok) =>
          /\ errsrc' = "none"
          /\ total_tweets' = total_tweets
          /\ IF idx < Len(result)
             THEN pc' = "extract" /\ idx' = idx + 1
             ELSE pc' = "acquire"]_vars

\* C5 amended: a malformed item ends the run: the exception is caught, the
\* buffered records are saved, the rest of the page and later pages are not
\* processed and no further request is made.
C5_MalformedItemEndsRun ==
    [][(pc = "extract" /\ ~result[idx].ok) =>
          /\ pc' = "done"
          /\ errsrc' = "extract"
          /\ total_tweets' = total_tweets
          /\ collected' = collected
          /\ RowIds(file') = Ids(collected)
          /\ requests_count' = requests_count]_vars

\* A run ended by a malformed item with items of the page left unprocessed.
C5_Witness ==
    /\ pc = "done"
    /\ errsrc = "extract"
    /\ idx < Len(result)
    /\ Len(collected) > BatchSize

\* C6 as stated: search_tweets returns the total number of records collected.
C6_ReturnsTotal == pc = "done" => retval = <<total_tweets>>

\* C6 amended: on every way search_tweets ends it prints the total number of
\* records collected and returns no value.
C6_PrintsTotalReturnsNone ==
    pc = "done" =>
        /\ retval = <<>>
        /\ reported = total_tweets
        /\ total_tweets = Len(collected)

\* A run ended by a failed request after records were collected.
C6_Witness ==
    /\ pc = "done"
    /\ errsrc = "request"
    /\ tweets_batch # <<>>
    /\ reported > BatchSize

\* The saves of a run that collects t records: t \div BatchSize saves of
\* BatchSize rows, then one of the remainder when it is not zero.
ExpectedFlushes(t) ==
    [i \in 1..((t \div BatchSize) + (IF t % BatchSize # 0 THEN 1 ELSE 0)) |->
        IF i <= t \div BatchSize THEN BatchSize ELSE t % BatchSize]

\* C7: a run that ends without an error after collecting T records has made
\* T \div 20 saves of exactly 20 rows followed by one save of T % 20 rows when
\* that remainder is not zero, and the file holds exactly T rows.
C7_FlushSizes ==
    (pc = "done" /\ errsrc = "none") =>
        /\ flushes = ExpectedFlushes(total_tweets)
        /\ Len(RowIds(file)) = total_tweets

\* Pages of 20, 20 and 10 items with max_tweets = 45: saves of 20, 20 and 5.
C7_Witness ==
    /\ pc = "done"
    /\ errsrc = "none"
    /\ max_tweets = BigTarget
    /\ Len(upstream) = 2 * BigPage + SmallPage
    /\ flushes = <<BatchSize, BatchSize, BigTarget - 2 * BatchSize>>
    /\ Len(RowIds(file)) = BigTarget

----------------------------------------------------------------------------
(* Batch writer properties, checked under SpecFlush *)

\* C8: save_tweets_batch with an empty batch leaves the file as it is, however
\* often it is called (no second header, no empty line); with a non-empty
\* batch it appends exactly the rows of the batch, in order.
C8_FlushEmptyNoOp ==
    [][file # <<>> =>
          /\ (save_arg' = <<>> => file' = file)
          /\ (save_arg' # <<>> => file' = file \o CsvRows(save_arg'))
          /\ Head(file') = HeaderLine
          /\ \A i \in 2..Len(file') : file'[i].kind = "row"]_vars

\* An empty batch saved after a non-empty one.
C8_Witness ==
    /\ pc = "idle"
    /\ save_arg = <<>>
    /\ flushes # <<>>
    /\ Len(file) = 1 + flushes[1]

----------------------------------------------------------------------------
(* Request ordering, checked under Spec *)

\* C13: requests are made one at a time: a request is issued only by the
\* return of a check_rate_limit call, that call is started only at the start
\* of the run or once every item of the previous page has been processed, and
\* the response is handled before anything else is started.
C13_OneRequestAtATime ==
    [][/\ (pc' = "request" /\ pc # "request") =>
            /\ pc = "cooldown"
            /\ now' >= now + MinCooldown
            /\ lastGrant' = now'
            /\ fetches' = fetches
       /\ (pc' = "cooldown" /\ pc # "cooldown") => pc = "acquire"
       /\ (pc' = "acquire" /\ pc # "acquire") =>
            \/ pc = "idle" /\ fetches = 0
            \/ pc = "extract" /\ idx = Len(result) /\ fetches > 0
       /\ (pc = "request" /\ pc' # "request") =>
            /\ pc' \in {"extract", "done"}
            /\ fetches' = fetches + 1]_vars

\* The second request of a run, issued after the whole first page was processed.
C13_Witness ==
    /\ pc = "request"
    /\ phase = "next"
    /\ fetches = 1
    /\ lastGrant = now
    /\ idx = Len(result)
    /\ Len(collected) = BigPage

----------------------------------------------------------------------------
(* Cooperative scheduling, checked under SpecLoop *)

\* C14: while check_rate_limit is sleeping, another task of the event loop
\* can take a step.
C14_YieldsWhileSleeping == pc = "cooldown" => ENABLED OtherTaskStep

----------------------------------------------------------------------------
(* Ending a run, checked under Spec *)

\* C15: when a search or next-page request raises, the run ends in that
\* step: the buffered records are saved by at most one save, the request is
\* not made again, and no check_rate_limit call or request follows.
C15_RequestErrorEndsRun ==
    [][/\ (pc = "request" /\ errsrc' = "request") =>
            /\ pc' = "done"
            /\ outcome' = "error"
            /\ requests_count' = requests_count
            /\ fetches' = fetches + 1
            /\ file' = file \o CsvRows(tweets_batch)
            /\ Len(flushes') = Len(flushes) + (IF tweets_batch # <<>> THEN 1 ELSE 0)
       /\ (pc = "done") => (pc' = "done" /\ fetches' = fetches /\ requests_count' = requests_count)]_vars

\* The third request of a run raised while records were buffered.
C15_Witness ==
    /\ pc = "done"
    /\ errsrc = "request"
    /\ fetches = 3
    /\ requests_count = 3
    /\ tweets_batch # <<>>
    /\ Len(flushes) = 2

\* C16: however a run ends, every collected record is in the file exactly
\* once, the buffered records included, and the total printed at the end is
\* the number of data rows of the file.
C16_ReportedEqualsPersisted ==
    pc = "done" =>
        /\ reported = Len(DataLines(file))
        /\ RowIds(file) = Ids(collected)
        /\ \A i \in 1..Len(DataLines(file)) : DataLines(file)[i].kind = "row"
        /\ \A i, j \in 1..Len(DataLines(file)) :
              DataLines(file)[i].id = DataLines(file)[j].id => i = j
        /\ \A i \in 1..Len(tweets_batch) :
              \E j \in 1..Len(DataLines(file)) : DataLines(file)[j].id = tweets_batch[i].id

\* A run ended by exhaustion with a remainder saved after a full batch.
C16_Witness ==
    /\ pc = "done"
    /\ Exhausted
    /\ errsrc = "none"
    /\ tweets_batch # <<>>
    /\ reported > BatchSize
    /\ reported < max_tweets

\* C17: the file is created once, by the step that starts the run, with the
\* header as its only line, before any request is made and before any record
\* is collected; every later write appends data rows and nothing else.
C17_HeaderOnceAtStart ==
    [][/\ (file = <<>>) =>
            /\ pc = "idle"
            /\ fetches = 0 /\ requests_count = 0 /\ collected = <<>>
            /\ (pc' # "idle" => file' = <<HeaderLine>>)
            /\ fetches' = 0 /\ requests_count' = 0 /\ collected' = <<>>
       /\ (file # <<>>) =>
            /\ Head(file) = HeaderLine
            /\ IsPrefix(file, file')
            /\ \A i \in 2..Len(file') : file'[i].kind = "row"]_vars

\* A run that collected nothing: the file holds the header alone.
C17_Witness ==
    /\ pc = "done"
    /\ Exhausted
    /\ total_tweets = 0
    /\ fetches = 1
    /\ file = <<HeaderLine>>

\* C18: the step that brings total_tweets to max_tweets ends the run: the
\* rest of the page is left unprocessed and no check_rate_limit call or
\* request follows, so the last request is the one that returned the page
\* holding the item that reached the target.
C18_StopsAtTarget ==
    [][(pc = "extract" /\ total_tweets' # total_tweets /\ total_tweets' >= max_tweets) =>
          /\ pc' = "done"
          /\ outcome' = "target"
          /\ total_tweets' = max_tweets
          /\ idx' = idx
          /\ result' = result
          /\ result[idx].id = collected'[max_tweets].id
          /\ Len(collected') = max_tweets
          /\ fetches' = fetches
          /\ requests_count' = requests_count
          /\ upstream' = upstream]_vars

\* max_tweets = 1 reached by the first item of a full page.
C18_Witness ==
    /\ pc = "done"
    /\ outcome = "target"
    /\ max_tweets = 1
    /\ fetches = 1
    /\ idx = 1
    /\ Len(result) = BigPage
    /\ Len(collected) = 1

----------------------------------------------------------------------------
(* Termination, checked under SpecLive *)

----------------------------------------------------------------------------
(* Buffer accounting, checked under Spec *)

\* C20: until search_tweets has returned, total_tweets is the number of data
\* rows in the file plus the number of buffered records; the buffer never
\* holds more than BatchSize records, and fewer than BatchSize whenever a
\* check_rate_limit call or a request is in progress.
C20_BufferAccounting ==
    /\ Len(tweets_batch) <= BatchSize
    /\ (pc # "done") =>
            /\ total_tweets = Len(collected)
            /\ total_tweets = Len(DataLines(file)) + Len(tweets_batch)
    /\ (pc \in {"acquire", "cooldown", "request"}) => Len(tweets_batch) < BatchSize

\* A request awaited with 19 records buffered after a save.
C20_Witness ==
    /\ pc = "request"
    /\ Len(tweets_batch) = BatchSize - 1
    /\ Len(DataLines(file)) = BatchSize

====
